---- MODULE Spec2Model ----
(***************************************************************************)
(* The file-system facade of libfsntfs (libfsntfs_file_system.c): the      *)
(* object that owns the MFT and the security descriptor index and offers   *)
(* read_mft, read_bitmap, read_security_descriptors and the entry and      *)
(* security descriptor queries.                                            *)
(*                                                                         *)
(* The facade's own functions are translated from the source.  The         *)
(* modules it calls (libfsntfs_mft, libfsntfs_mft_entry,                    *)
(* libfsntfs_security_descriptor_index, libfsntfs_name, ...) are not part  *)
(* of the sources at hand; they are modelled from the specification        *)
(* (sections 4.6 to 4.8) and each of their outcomes the facade branches on *)
(* is kept.                                                                *)
(***************************************************************************)
EXTENDS Integers, Sequences, FiniteSets, TLC

VARIABLES
    image,        \* the volume image behind the file IO handle (immutable)
    io_handle,    \* libfsntfs_io_handle_t: mft_entry_size, cluster_block_size
    file_system,  \* libfsntfs_file_system_t: mft, security_descriptor_index, read_write_lock
    ret,          \* the last facade call: arguments, result, error, events
    history,      \* what read_mft calls have done so far on this facade
    thread        \* per thread: where it is inside get_mft_entry_by_index

vars == <<image, io_handle, file_system, ret, history, thread>>

-----------------------------------------------------------------------------
(* Bounds.  Integer limits are scaled down so that values on both sides of *)
(* them can be enumerated; the order INT_MAX < INT64_MAX is kept.          *)

INT_MAX == 11

INT64_MAX == 15

NumThreads == 2

CacheCapacity == 1

(* Program constants. *)

LIBFSNTFS_FILE_ENTRY_FLAGS_MFT_ONLY == 1

LIBFSNTFS_MFT_ENTRY_INDEX_BITMAP == 6

LIBFSNTFS_MFT_ENTRY_INDEX_SECURE == 9

-----------------------------------------------------------------------------
(* Pointers and error codes *)

NULL == [null |-> TRUE]

NoError == "NONE"

Threads == 1 .. NumThreads

(* The event an operation leaves in its event list: what was done, on     *)
(* which MFT entry (-1: none) and whether it succeeded.                    *)
Event(what, index, ok) == [ev |-> what, index |-> index, ok |-> ok]

-----------------------------------------------------------------------------
(* The volume image.  The MFT starts at ImageMftOffset; anything else read *)
(* as an MFT entry is not a FILE record.                                   *)

ImageMftOffset == 4

SecureFiles ==
    { [name |-> "$Quota",  sds |-> TRUE,  sii |-> {1},    bad |-> {}],
      [name |-> "$Secure", sds |-> TRUE,  sii |-> {1, 2}, bad |-> {2}],
      [name |-> "$Secure", sds |-> TRUE,  sii |-> {0, 1}, bad |-> {}],
      [name |-> "$Secure", sds |-> FALSE, sii |-> {},     bad |-> {}] }

(* A 32-bit word of $Bitmap as its bits, least significant first. *)
Word32(set_bits) == [k \in 1 .. 32 |-> IF (k - 1) \in set_bits THEN 1 ELSE 0]

(* The valid size of the unnamed $DATA attribute of entry 0. *)
ImageMftDataSize == 10

(* An intact image: entry 0 with its $DATA, $Secure with two descriptors   *)
(* (one of them damaged in $SDS), $Bitmap with one cluster block.          *)
IntactImage ==
    [ entry0        |-> "ok",
      mft_data_size |-> ImageMftDataSize,
      secure        |-> [name |-> "$Secure", sds |-> TRUE, sii |-> {1, 2}, bad |-> {2}],
      bitmap        |-> [data |-> TRUE,
                         blocks |-> << [data_size |-> 4,
                                        words |-> << Word32({0, 1, 3}) >>] >>] ]

(* Images that differ in entry 0: intact, failing the fixup check, or      *)
(* without an unnamed $DATA attribute.                                     *)
BootstrapImages ==
    { [IntactImage EXCEPT !.entry0 = e] : e \in {"ok", "corrupt", "nodata"} }

(* Images that differ in entry 9. *)
SecurityImages ==
    { [IntactImage EXCEPT !.secure = s] : s \in SecureFiles }

(* A cluster block of $Bitmap: its words, and data_size bytes of which     *)
(* spare are beyond the last whole word.                                   *)
BitmapBlock(words, spare) == [data_size |-> 4 * Len(words) + spare, words |-> words]

(* $Bitmap contents: a run that crosses a block boundary, clusters 0 .. 3  *)
(* in one block, clusters 0 .. 32 over two blocks, a run that crosses a    *)
(* word boundary inside a block, and a block whose size is not a multiple  *)
(* of 4 between two that are.                                              *)
Bitmaps ==
    { IntactImage.bitmap.blocks,
      << BitmapBlock(<< Word32({30, 31}) >>, 0), BitmapBlock(<< Word32({0, 1, 4}) >>, 0) >>,
      << BitmapBlock(<< Word32({0, 1, 2, 3}) >>, 0) >>,
      << BitmapBlock(<< Word32(0 .. 31) >>, 0), BitmapBlock(<< Word32({0}) >>, 0) >>,
      << BitmapBlock(<< Word32({2, 31}), Word32({0, 7}) >>, 0) >>,
      << BitmapBlock(<< Word32({1}) >>, 0), BitmapBlock(<< Word32({5}) >>, 2),
         BitmapBlock(<< Word32({9}) >>, 0) >> }

(* Images that differ in entry 6: its $DATA content, or no $DATA at all. *)
BitmapImages ==
    { [IntactImage EXCEPT !.bitmap = [data |-> TRUE, blocks |-> b]] : b \in Bitmaps }
    \cup { [IntactImage EXCEPT !.bitmap.data = FALSE] }

IoHandles == [ mft_entry_size : {1, 2}, cluster_block_size : {1} ]

(* I/O handles of a volume header that declares an MFT entry size of 0. *)
EntrySizeIoHandles == [ mft_entry_size : {0, 1}, cluster_block_size : {1} ]

BitmapIoHandles == [ mft_entry_size : {1, 2}, cluster_block_size : {1, 2} ]

(* Arguments the callers pass. *)
MftOffsets == {-1, ImageMftOffset}

MftSizes == {0, INT_MAX, INT_MAX + 1, INT64_MAX + 1}

MftFlags == {0, LIBFSNTFS_FILE_ENTRY_FLAGS_MFT_ONLY}

EntryIndexes == {0, 1, INT_MAX}

Identifiers == {0, 1, 2, 3}

-----------------------------------------------------------------------------
(* libfsntfs_mft and libfsntfs_mft_entry, as the specification describes   *)
(* them (section 4.6).                                                     *)

(* The parsed MFT entry at an index of the image, NULL when the record     *)
(* does not pass the fixup check.                                          *)
ImageEntry(img, index) ==
    IF index = 0
    THEN IF img.entry0 = "corrupt"
         THEN NULL
         ELSE [index |-> 0, data_attribute |-> (img.entry0 = "ok"), name |-> "$MFT"]
    ELSE IF index = LIBFSNTFS_MFT_ENTRY_INDEX_BITMAP
    THEN [index |-> index, data_attribute |-> img.bitmap.data, name |-> "$Bitmap"]
    ELSE IF index = LIBFSNTFS_MFT_ENTRY_INDEX_SECURE
    THEN [index |-> index, data_attribute |-> FALSE, name |-> img.secure.name]
    ELSE [index |-> index, data_attribute |-> TRUE, name |-> "file"]

(* Step 1 of the bootstrap: the MFT object with the stub stream over       *)
(* (mft_offset, mft_size), an empty cache and no entries counted yet.      *)
libfsntfs_mft_initialize(mft_offset, mft_size, mft_entry_size, flags, fails) ==
    IF fails
    THEN NULL
    ELSE [ mft_offset            |-> mft_offset,
           mft_size              |-> mft_size,
           mft_entry_size        |-> mft_entry_size,
           flags                 |-> flags,
           number_of_mft_entries |-> 0,
           data_runs             |-> FALSE,
           cache                 |-> << >> ]

(* Step 2: reads mft_entry_size bytes at file_offset and parses them as    *)
(* the MFT entry with this index.  Only the image's MFT holds records.     *)
(* A record of no bytes has no signature and no header to validate         *)
(* (section 4.5 of the specification).                                     *)
libfsntfs_mft_read_mft_entry(img, mft, file_offset, index, fails) ==
    IF fails \/ mft.mft_entry_size = 0
             \/ file_offset # ImageMftOffset + index * mft.mft_entry_size
    THEN NULL
    ELSE ImageEntry(img, index)

(* Steps 3 to 5: the run list of entry 0's $DATA replaces the stub and the *)
(* entry count becomes $DATA valid size / mft_entry_size.                  *)
libfsntfs_mft_set_data_runs(img, mft, mft_entry, fails) ==
    IF fails \/ ~mft_entry.data_attribute \/ mft.mft_entry_size = 0
    THEN NULL
    ELSE [mft EXCEPT !.data_runs = TRUE,
                     !.number_of_mft_entries = img.mft_data_size \div mft.mft_entry_size]

-----------------------------------------------------------------------------
(* libfsntfs_file_system_read_mft *)

(* What a facade function hands back: the facade afterwards, the return    *)
(* value, the error code it set and the events in the order they happened. *)
(* One step in the life of an object a function creates for its own use. *)
Transient(object, what, ok) == [object |-> object, ev |-> what, ok |-> ok]

(* The local pointer to the object is set: it was created and no free has  *)
(* been called on it since (a free resets the pointer, as                  *)
(* libfsntfs_file_system_free does, also when it returns -1).              *)
PointerSet(transients, object) ==
    \E k \in 1 .. Len(transients) :
        /\ transients[k] = Transient(object, "initialize", TRUE)
        /\ \A j \in (k + 1) .. Len(transients) :
               ~(transients[j].object = object /\ transients[j].ev = "free")

(* if( object != NULL ) free( &object, NULL ) *)
on_error_free(transients, object) ==
    IF PointerSet(transients, object)
    THEN Append(transients, Transient(object, "free", TRUE))
    ELSE transients

Outcome(fs, result, error, events) ==
    [file_system |-> fs, result |-> result, error |-> error, events |-> events,
     transients |-> << >>]

(* The outcomes of the calls read_mft makes that the image does not decide. *)
ReadMftFailures ==
    {"none", "mft_initialize", "mft_entry_initialize", "read_mft_entry",
     "set_data_runs", "mft_entry_free"}

(* No call is made, and so none can fail, once an argument check failed. *)
ReadMftFailuresAfter(check) ==
    IF check = "NONE" THEN ReadMftFailures ELSE {"none"}

(* The argument checks with the tests of mft_offset and mft_size made      *)
(* before the test of file_system->mft.                                    *)
read_mft_check_arguments_values_first(fs, ioh, mft_offset, mft_size) ==
    IF fs = NULL THEN "ARGUMENT_INVALID_VALUE"
    ELSE IF ioh = NULL THEN "ARGUMENT_INVALID_VALUE"
    ELSE IF mft_offset < 0 THEN "VALUE_OUT_OF_BOUNDS"
    ELSE IF mft_size > INT64_MAX THEN "VALUE_EXCEEDS_MAXIMUM"
    ELSE IF fs.mft # NULL THEN "VALUE_ALREADY_SET"
    ELSE NoError

(* The argument checks without the test of mft_size against INT64_MAX. *)
read_mft_check_arguments_any_size(fs, ioh, mft_offset, mft_size) ==
    IF fs = NULL THEN "ARGUMENT_INVALID_VALUE"
    ELSE IF fs.mft # NULL THEN "VALUE_ALREADY_SET"
    ELSE IF ioh = NULL THEN "ARGUMENT_INVALID_VALUE"
    ELSE IF mft_offset < 0 THEN "VALUE_OUT_OF_BOUNDS"
    ELSE NoError

(* The argument checks, in the order the function makes them. *)
read_mft_check_arguments(fs, ioh, mft_offset, mft_size) ==
    IF fs = NULL THEN "ARGUMENT_INVALID_VALUE"
    ELSE IF fs.mft # NULL THEN "VALUE_ALREADY_SET"
    ELSE IF ioh = NULL THEN "ARGUMENT_INVALID_VALUE"
    ELSE IF mft_offset < 0 THEN "VALUE_OUT_OF_BOUNDS"
    ELSE IF mft_size > INT64_MAX THEN "VALUE_EXCEEDS_MAXIMUM"
    ELSE NoError

(* An MFT object that counts its entries from mft_size the moment it is    *)
(* created, before entry 0 is read.                                        *)
read_mft_create_mft_counted(ioh, mft_offset, mft_size, flags, fails) ==
    IF fails
    THEN NULL
    ELSE [libfsntfs_mft_initialize(mft_offset, mft_size, ioh.mft_entry_size, flags, FALSE)
              EXCEPT !.number_of_mft_entries = mft_size \div ioh.mft_entry_size]

(* An MFT object created with an entry size of 1, whatever the I/O handle *)
(* declares.                                                               *)
read_mft_create_mft_unit_entry_size(ioh, mft_offset, mft_size, flags, fails) ==
    libfsntfs_mft_initialize(mft_offset, mft_size, 1, flags, fails)

(* The MFT object the facade holds while entry 0 is read. *)
read_mft_create_mft(ioh, mft_offset, mft_size, flags, fails) ==
    libfsntfs_mft_initialize(mft_offset, mft_size, ioh.mft_entry_size, flags, fails)

(* A read_mft that does not look at the MFT_ONLY flag. *)
read_mft_is_mft_only_ignored(flags) ==
    FALSE

(* flags & LIBFSNTFS_FILE_ENTRY_FLAGS_MFT_ONLY *)
read_mft_is_mft_only(flags) ==
    (flags \div LIBFSNTFS_FILE_ENTRY_FLAGS_MFT_ONLY) % 2 # 0

(* The MFT_ONLY branch: entry 0 needs its unnamed $DATA attribute and the  *)
(* count mft_size / mft_entry_size must fit an int.  The division is made  *)
(* without a test of the divisor: with mft_entry_size 0 it traps, and the  *)
(* call does not return (result 0, nothing released).                      *)
read_mft_mft_only_error(ioh, mft_entry, mft_size) ==
    IF ~mft_entry.data_attribute THEN "VALUE_MISSING"
    ELSE IF ioh.mft_entry_size = 0 THEN "DIVISION_BY_ZERO"
    ELSE IF (mft_size \div ioh.mft_entry_size) > INT_MAX THEN "VALUE_OUT_OF_BOUNDS"
    ELSE NoError

read_mft_mft_only_count(mft, ioh, mft_size) ==
    [mft EXCEPT !.number_of_mft_entries = mft_size \div ioh.mft_entry_size]

(* An on_error that also releases the MFT object of the facade. *)
read_mft_on_error_releasing(fs, error, events, transients) ==
    [Outcome([fs EXCEPT !.mft = NULL], -1, error, events) EXCEPT
        !.transients = on_error_free(transients, "mft_entry")]

(* An on_error that returns without a look at mft_entry. *)
read_mft_on_error_leaking(fs, error, events, transients) ==
    [Outcome(fs, -1, error, events) EXCEPT !.transients = transients]

(* on_error: the temporary entry is released, the facade is left as is. *)
read_mft_on_error(fs, error, events, transients) ==
    [Outcome(fs, -1, error, events) EXCEPT
        !.transients = on_error_free(transients, "mft_entry")]

(* From the read of entry 0 on (the MFT object exists). *)
read_mft_bootstrap(img, fs, ioh, mft_offset, mft_size, flags, fails) ==
    LET mft_entry == libfsntfs_mft_read_mft_entry(
                         img, fs.mft, mft_offset, 0, fails = "read_mft_entry")
        read      == <<Event("read_mft_entry", 0, mft_entry # NULL)>>
        created   == <<Transient("mft_entry", "initialize", TRUE)>>
    IN
    IF fails = "mft_entry_initialize"
    THEN read_mft_on_error(fs, "INITIALIZE_FAILED", << >>,
                           <<Transient("mft_entry", "initialize", FALSE)>>)
    ELSE IF mft_entry = NULL
    THEN read_mft_on_error(fs, "READ_FAILED", read, created)
    ELSE
      LET runs   == libfsntfs_mft_set_data_runs(
                        img, fs.mft, mft_entry, fails = "set_data_runs")
          only   == read_mft_mft_only_error(ioh, mft_entry, mft_size)
          events == IF read_mft_is_mft_only(flags)
                    THEN read
                    ELSE read \o <<Event("set_data_runs", 0, runs # NULL)>>
          error  == IF read_mft_is_mft_only(flags)
                    THEN only
                    ELSE IF runs = NULL THEN "SET_FAILED" ELSE NoError
          fs2    == IF read_mft_is_mft_only(flags)
                    THEN [fs EXCEPT !.mft = read_mft_mft_only_count(fs.mft, ioh, mft_size)]
                    ELSE [fs EXCEPT !.mft = runs]
      IN
      IF error = "DIVISION_BY_ZERO"
      THEN [Outcome(fs, 0, error, events) EXCEPT !.transients = created]
      ELSE IF error # NoError
      THEN read_mft_on_error(fs, error, events, created)
      ELSE IF fails = "mft_entry_free"
      THEN read_mft_on_error(fs2, "FINALIZE_FAILED", events,
                             Append(created, Transient("mft_entry", "free", FALSE)))
      ELSE [Outcome(fs2, 1, NoError, events) EXCEPT
               !.transients = Append(created, Transient("mft_entry", "free", TRUE))]

libfsntfs_file_system_read_mft(img, fs, ioh, mft_offset, mft_size, flags, fails) ==
    LET check == read_mft_check_arguments(fs, ioh, mft_offset, mft_size)
        mft   == read_mft_create_mft(ioh, mft_offset, mft_size, flags,
                                     fails = "mft_initialize")
    IN
    IF check # NoError
    THEN Outcome(fs, -1, check, << >>)
    ELSE IF mft = NULL
    THEN read_mft_on_error(fs, "INITIALIZE_FAILED", << >>, << >>)
    ELSE read_mft_bootstrap(img, [fs EXCEPT !.mft = mft], ioh,
                            mft_offset, mft_size, flags, fails)

-----------------------------------------------------------------------------
(* The MFT's entry vector and cache (section 4.6 of the specification).    *)

(* An entry index above the entry count is out of range. *)
mft_entry_out_of_range(mft, index) ==
    index > mft.number_of_mft_entries

(* Reads and parses entry index through the backing store: the run list of *)
(* entry 0's $DATA once installed, the stub over (mft_offset, mft_size)    *)
(* before that and in MFT_ONLY mode.  NULL when the read or parse fails.   *)
mft_read_element(img, mft, index, fails) ==
    IF mft.data_runs
    THEN IF fails \/ (index + 1) * mft.mft_entry_size > img.mft_data_size
         THEN NULL
         ELSE ImageEntry(img, index)
    ELSE IF (index + 1) * mft.mft_entry_size > mft.mft_size
         THEN NULL
         ELSE libfsntfs_mft_read_mft_entry(
                  img, mft, mft.mft_offset + index * mft.mft_entry_size, index, fails)

(* The cache keeps the entry indexes in the order they were inserted. *)
mft_cache_holds(mft, index) ==
    \E k \in 1 .. Len(mft.cache) : mft.cache[k] = index

(* Insert on miss; the oldest entry is evicted when the cache is full. *)
mft_cache_insert(mft, index) ==
    [mft EXCEPT !.cache = IF Len(mft.cache) >= CacheCapacity
                          THEN Append(Tail(mft.cache), index)
                          ELSE Append(mft.cache, index)]

(* What the MFT hands back: itself (the cache may have changed), the entry *)
(* (NULL: none), the return value and the events.                          *)
MftOutcome(mft, entry, result, events) ==
    [mft |-> mft, entry |-> entry, result |-> result, events |-> events]

libfsntfs_mft_get_mft_entry_by_index(img, mft, index, fails) ==
    IF mft = NULL
    THEN MftOutcome(mft, NULL, -1, << >>)
    ELSE IF mft_entry_out_of_range(mft, index)
    THEN MftOutcome(mft, NULL, -1, << >>)
    ELSE IF mft_cache_holds(mft, index)
    THEN MftOutcome(mft, ImageEntry(img, index), 1, <<Event("cache_hit", index, TRUE)>>)
    ELSE LET entry == mft_read_element(img, mft, index, fails)
         IN IF entry = NULL
            THEN MftOutcome(mft, NULL, -1, <<Event("read_mft_entry", index, FALSE)>>)
            ELSE MftOutcome(mft_cache_insert(mft, index), entry, 1,
                            <<Event("read_mft_entry", index, TRUE),
                              Event("cache_insert", index, TRUE)>>)

libfsntfs_mft_get_mft_entry_by_index_no_cache(img, mft, index, fails) ==
    IF mft = NULL
    THEN MftOutcome(mft, NULL, -1, << >>)
    ELSE IF mft_entry_out_of_range(mft, index)
    THEN MftOutcome(mft, NULL, -1, << >>)
    ELSE LET entry == mft_read_element(img, mft, index, fails)
         IN MftOutcome(mft, entry, IF entry = NULL THEN -1 ELSE 1,
                       <<Event("read_mft_entry", index, entry # NULL)>>)

libfsntfs_mft_get_number_of_entries(mft) ==
    IF mft = NULL
    THEN [result |-> -1, number_of_mft_entries |-> 0]
    ELSE [result |-> 1, number_of_mft_entries |-> mft.number_of_mft_entries]

-----------------------------------------------------------------------------
(* The facade's queries.  Each outcome carries the output argument in out. *)

QueryOutcome(fs, result, error, events, out) ==
    [file_system |-> fs, result |-> result, error |-> error,
     events |-> events, out |-> out, transients |-> << >>]

libfsntfs_file_system_get_number_of_mft_entries(fs, number_in) ==
    IF fs = NULL
    THEN QueryOutcome(fs, -1, "ARGUMENT_INVALID_VALUE", << >>, number_in)
    ELSE LET got == libfsntfs_mft_get_number_of_entries(fs.mft)
         IN IF got.result # 1
            THEN QueryOutcome(fs, -1, "GET_FAILED", << >>, number_in)
            ELSE QueryOutcome(fs, 1, NoError, << >>, got.number_of_mft_entries)

libfsntfs_file_system_get_mft_entry_by_index_unchecked(img, fs, index, fails) ==
    IF fs = NULL
    THEN QueryOutcome(fs, -1, "ARGUMENT_INVALID_VALUE", << >>, NULL)
    ELSE LET got == libfsntfs_mft_get_mft_entry_by_index(img, fs.mft, index, fails)
         IN QueryOutcome([fs EXCEPT !.mft = got.mft], 1, NoError, got.events, got.entry)

libfsntfs_file_system_get_mft_entry_by_index(img, fs, index, fails) ==
    IF fs = NULL
    THEN QueryOutcome(fs, -1, "ARGUMENT_INVALID_VALUE", << >>, NULL)
    ELSE LET got == libfsntfs_mft_get_mft_entry_by_index(img, fs.mft, index, fails)
         IN IF got.result # 1
            THEN QueryOutcome(fs, -1, "GET_FAILED", got.events, NULL)
            ELSE QueryOutcome([fs EXCEPT !.mft = got.mft], 1, NoError, got.events, got.entry)

libfsntfs_file_system_get_mft_entry_by_index_no_cache(img, fs, index, fails) ==
    IF fs = NULL
    THEN QueryOutcome(fs, -1, "ARGUMENT_INVALID_VALUE", << >>, NULL)
    ELSE LET got == libfsntfs_mft_get_mft_entry_by_index_no_cache(img, fs.mft, index, fails)
         IN IF got.result # 1
            THEN QueryOutcome(fs, -1, "GET_FAILED", got.events, NULL)
            ELSE QueryOutcome(fs, 1, NoError, got.events, got.entry)

-----------------------------------------------------------------------------
(* libfsntfs_security_descriptor_index and libfsntfs_name, as the          *)
(* specification describes them (section 4.8).                             *)

(* The index object: the identifiers of $SII it holds, and those whose     *)
(* $SDS entry header does not match the index value.  Empty when created.  *)
libfsntfs_security_descriptor_index_initialize(fails) ==
    IF fails
    THEN NULL
    ELSE [sii |-> {}, bad |-> {}]

(* Reads the $SII index of entry 9 into the index object; NULL on failure. *)
libfsntfs_security_descriptor_index_read_sii_index(index, img, fails) ==
    IF fails
    THEN NULL
    ELSE [index EXCEPT !.sii = img.secure.sii, !.bad = img.secure.bad]

(* Lookup(id): 0 when the $SII index has no such key, -1 when the $SDS     *)
(* entry cannot be read or its header does not match, 1 with the values.   *)
libfsntfs_security_descriptor_index_get_entry_by_identifier(index, identifier, values_in, fails) ==
    IF identifier \notin index.sii
    THEN [result |-> 0, values |-> values_in]
    ELSE IF fails \/ identifier \in index.bad
    THEN [result |-> -1, values |-> values_in]
    ELSE [result |-> 1, values |-> [identifier |-> identifier]]

(* The name of the entry against "$Secure". *)
libfsntfs_name_compare_with_utf8_string(name, utf8_string, fails) ==
    IF fails THEN "ERROR"
    ELSE IF name = utf8_string THEN "EQUAL"
    ELSE "LESS"

-----------------------------------------------------------------------------
(* libfsntfs_file_system_get_security_descriptor_values_by_identifier *)

(* A lookup that treats a facade without security descriptor index as an   *)
(* error.                                                                  *)
libfsntfs_file_system_get_security_descriptor_values_by_identifier_strict(fs, identifier, values_in, fails) ==
    IF fs = NULL
    THEN QueryOutcome(fs, -1, "ARGUMENT_INVALID_VALUE", << >>, values_in)
    ELSE IF fs.security_descriptor_index = NULL
    THEN QueryOutcome(fs, -1, "VALUE_MISSING", << >>, values_in)
    ELSE LET got == libfsntfs_security_descriptor_index_get_entry_by_identifier(
                        fs.security_descriptor_index, identifier, values_in, fails)
         IN IF got.result = -1
            THEN QueryOutcome(fs, -1, "GET_FAILED", << >>, got.values)
            ELSE QueryOutcome(fs, got.result, NoError, << >>, got.values)

libfsntfs_file_system_get_security_descriptor_values_by_identifier(fs, identifier, values_in, fails) ==
    IF fs = NULL
    THEN QueryOutcome(fs, -1, "ARGUMENT_INVALID_VALUE", << >>, values_in)
    ELSE IF fs.security_descriptor_index # NULL
    THEN LET got == libfsntfs_security_descriptor_index_get_entry_by_identifier(
                        fs.security_descriptor_index, identifier, values_in, fails)
         IN IF got.result = -1
            THEN QueryOutcome(fs, -1, "GET_FAILED", << >>, got.values)
            ELSE QueryOutcome(fs, got.result, NoError, << >>, got.values)
    ELSE QueryOutcome(fs, 0, NoError, << >>, values_in)

-----------------------------------------------------------------------------
(* libfsntfs_file_system_read_security_descriptors *)

ReadSecurityDescriptorsFailures ==
    {"none", "get_mft_entry", "mft_entry_missing", "get_attribute",
     "file_name_values_initialize", "read_file_name", "compare", "get_sds",
     "index_initialize", "read_sii_index", "file_name_values_free"}

(* on_error: a security descriptor index built so far is released. *)
read_security_descriptors_on_error_keeping(fs, error, events, transients) ==
    [Outcome(fs, -1, error, events) EXCEPT
        !.transients = on_error_free(transients, "file_name_values")]

read_security_descriptors_on_error(fs, error, events, transients) ==
    [Outcome([fs EXCEPT !.security_descriptor_index = NULL], -1, error, events) EXCEPT
        !.transients = on_error_free(transients, "file_name_values")]

(* The branch taken when the name of entry 9 compares equal to "$Secure":  *)
(* the $SDS attribute, the index object, the $SII index.  The facade with  *)
(* the index set, or an error code.                                        *)
read_security_descriptors_secure(img, fs, fails) ==
    LET created == libfsntfs_security_descriptor_index_initialize(
                       fails = "index_initialize")
        read    == libfsntfs_security_descriptor_index_read_sii_index(
                       created, img, fails = "read_sii_index")
    IN
    IF fails = "get_sds" \/ ~img.secure.sds
    THEN [error |-> "GET_FAILED", file_system |-> fs]
    ELSE IF created = NULL
    THEN [error |-> "INITIALIZE_FAILED", file_system |-> fs]
    ELSE IF read = NULL
    THEN [error |-> "READ_FAILED",
          file_system |-> [fs EXCEPT !.security_descriptor_index = created]]
    ELSE [error |-> NoError,
          file_system |-> [fs EXCEPT !.security_descriptor_index = read]]

(* From the file name of entry 9 on, without regard to the outcome of the  *)
(* comparison with "$Secure": the index is built from whatever entry 9 is. *)
read_security_descriptors_by_any_name(img, fs, mft_entry, events, fails) ==
    LET compare == libfsntfs_name_compare_with_utf8_string(
                       mft_entry.name, "$Secure", fails = "compare")
        secure  == read_security_descriptors_secure(img, fs, fails)
        created == <<Transient("file_name_values", "initialize", TRUE)>>
    IN
    IF compare = "ERROR"
    THEN read_security_descriptors_on_error(fs, "GENERIC", events, created)
    ELSE IF secure.error # NoError
    THEN read_security_descriptors_on_error(secure.file_system, secure.error, events, created)
    ELSE IF fails = "file_name_values_free"
    THEN read_security_descriptors_on_error(secure.file_system, "FINALIZE_FAILED", events,
             Append(created, Transient("file_name_values", "free", FALSE)))
    ELSE [Outcome(secure.file_system, 1, NoError, events) EXCEPT
            !.transients = Append(created, Transient("file_name_values", "free", TRUE))]

(* From the file name of entry 9 on. *)
read_security_descriptors_by_name(img, fs, mft_entry, events, fails) ==
    LET compare == libfsntfs_name_compare_with_utf8_string(
                       mft_entry.name, "$Secure", fails = "compare")
        secure  == read_security_descriptors_secure(img, fs, fails)
        created == <<Transient("file_name_values", "initialize", TRUE)>>
        fs2     == IF compare = "EQUAL" THEN secure.file_system ELSE fs
    IN
    IF compare = "ERROR"
    THEN read_security_descriptors_on_error(fs, "GENERIC", events, created)
    ELSE IF compare = "EQUAL" /\ secure.error # NoError
    THEN read_security_descriptors_on_error(fs2, secure.error, events, created)
    ELSE IF fails = "file_name_values_free"
    THEN read_security_descriptors_on_error(fs2, "FINALIZE_FAILED", events,
             Append(created, Transient("file_name_values", "free", FALSE)))
    ELSE [Outcome(fs2, 1, NoError, events) EXCEPT
            !.transients = Append(created, Transient("file_name_values", "free", TRUE))]

libfsntfs_file_system_read_security_descriptors(img, fs, ioh, fails) ==
    IF fs = NULL
    THEN Outcome(fs, -1, "ARGUMENT_INVALID_VALUE", << >>)
    ELSE IF fs.security_descriptor_index # NULL
    THEN Outcome(fs, -1, "VALUE_ALREADY_SET", << >>)
    ELSE
      LET got == libfsntfs_mft_get_mft_entry_by_index(
                     img, fs.mft, LIBFSNTFS_MFT_ENTRY_INDEX_SECURE, fails = "get_mft_entry")
          fs1 == [fs EXCEPT !.mft = got.mft]
      IN
      IF got.result # 1
      THEN read_security_descriptors_on_error(fs, "GET_FAILED", got.events, << >>)
      ELSE IF fails = "mft_entry_missing"
      THEN read_security_descriptors_on_error(fs1, "VALUE_MISSING", got.events, << >>)
      ELSE IF fails = "get_attribute"
      THEN read_security_descriptors_on_error(fs1, "GET_FAILED", got.events, << >>)
      ELSE IF fails = "file_name_values_initialize"
      THEN read_security_descriptors_on_error(
               fs1, "INITIALIZE_FAILED", got.events,
               <<Transient("file_name_values", "initialize", FALSE)>>)
      ELSE IF fails = "read_file_name"
      THEN read_security_descriptors_on_error(
               fs1, "READ_FAILED", got.events,
               <<Transient("file_name_values", "initialize", TRUE)>>)
      ELSE read_security_descriptors_by_name(img, fs1, got.entry, got.events, fails)

-----------------------------------------------------------------------------
(* libfsntfs_file_system_read_bitmap *)

ReadBitmapFailures ==
    {"none", "get_mft_entry", "mft_entry_missing", "vector_initialize",
     "cache_initialize", "get_number_of_elements", "get_cluster_block",
     "cluster_block_missing", "cluster_block_data_missing",
     "vector_free", "cache_free"}

(* The scan state: the running bitmap offset, the start of the open range  *)
(* (-1: none) and the ranges written to the debug output so far.           *)
ScanState(bitmap_offset, start_offset, ranges) ==
    [bitmap_offset |-> bitmap_offset, start_offset |-> start_offset, ranges |-> ranges]

(* The range (start_offset, bitmap_offset - start_offset) is printed. *)
read_bitmap_emit(scan) ==
    Append(scan.ranges, <<scan.start_offset, scan.bitmap_offset - scan.start_offset>>)

(* One bit of value_32bit, the lowest first. *)
read_bitmap_scan_bit(scan, bit, cluster_block_size) ==
    LET after == IF bit = 0
                 THEN IF scan.start_offset >= 0
                      THEN ScanState(scan.bitmap_offset, -1, read_bitmap_emit(scan))
                      ELSE scan
                 ELSE IF scan.start_offset < 0
                      THEN ScanState(scan.bitmap_offset, scan.bitmap_offset, scan.ranges)
                      ELSE scan
    IN [after EXCEPT !.bitmap_offset = after.bitmap_offset + cluster_block_size]

(* The loop over the bits first .. last of value_32bit, in this order       *)
(* (by halves; the test of the lower half's offset, which never is         *)
(* negative, has the lower half evaluated before the upper one starts).    *)
RECURSIVE read_bitmap_scan_bits_from(_, _, _, _, _)
read_bitmap_scan_bits_from(scan, bits, first, last, cluster_block_size) ==
    IF first > last
    THEN scan
    ELSE IF first = last
    THEN read_bitmap_scan_bit(scan, bits[first], cluster_block_size)
    ELSE LET middle == (first + last) \div 2
             lower  == read_bitmap_scan_bits_from(
                           scan, bits, first, middle, cluster_block_size)
         IN IF lower.bitmap_offset < 0
            THEN lower
            ELSE read_bitmap_scan_bits_from(
                     lower, bits, middle + 1, last, cluster_block_size)

(* for( bit_index = 0; bit_index < 32; bit_index++ ) *)
read_bitmap_scan_bits(scan, bits, cluster_block_size) ==
    read_bitmap_scan_bits_from(scan, bits, 1, 32, cluster_block_size)

RECURSIVE read_bitmap_scan_words(_, _, _)
read_bitmap_scan_words(scan, words, cluster_block_size) ==
    IF words = << >>
    THEN scan
    ELSE read_bitmap_scan_words(
             read_bitmap_scan_bits(scan, Head(words), cluster_block_size),
             Tail(words), cluster_block_size)

read_bitmap_scan_block_carrying(scan, cluster_block, cluster_block_size) ==
    read_bitmap_scan_words(scan, cluster_block.words, cluster_block_size)

(* One cluster block: the open range is reset, the words are scanned and a *)
(* range still open at the end of the block is printed.                    *)
read_bitmap_scan_block(scan, cluster_block, cluster_block_size) ==
    LET scanned == read_bitmap_scan_words(
                       ScanState(scan.bitmap_offset, -1, scan.ranges),
                       cluster_block.words, cluster_block_size)
    IN IF scanned.start_offset >= 0
       THEN [scanned EXCEPT !.ranges = read_bitmap_emit(scanned)]
       ELSE scanned

read_bitmap_data_size_unchecked(cluster_block) ==
    FALSE

(* ( data_size % 4 ) != 0; no block of the images is above SSIZE_MAX. *)
read_bitmap_data_size_out_of_bounds(cluster_block) ==
    cluster_block.data_size % 4 # 0

(* The loop over the cluster blocks from cluster_block_index on; a failure *)
(* of the kind fails strikes at block fails_at.  The events tell which     *)
(* blocks were asked of the vector and which had their words scanned.      *)
RECURSIVE read_bitmap_blocks(_, _, _, _, _, _)
read_bitmap_blocks(scan, blocks, cluster_block_index, cluster_block_size, fails, fails_at) ==
    IF cluster_block_index >= Len(blocks)
    THEN [error |-> NoError, scan |-> scan, events |-> << >>]
    ELSE LET cluster_block == blocks[cluster_block_index + 1]
             here          == (cluster_block_index = fails_at)
             got           == Event("get_cluster_block", cluster_block_index, TRUE)
         IN IF here /\ fails = "get_cluster_block"
            THEN [error |-> "GET_FAILED", scan |-> scan,
                  events |-> <<Event("get_cluster_block", cluster_block_index, FALSE)>>]
            ELSE IF here /\ fails \in {"cluster_block_missing", "cluster_block_data_missing"}
            THEN [error |-> "VALUE_MISSING", scan |-> scan, events |-> <<got>>]
            ELSE IF read_bitmap_data_size_out_of_bounds(cluster_block)
            THEN [error |-> "VALUE_OUT_OF_BOUNDS", scan |-> scan, events |-> <<got>>]
            ELSE LET rest == read_bitmap_blocks(
                                 read_bitmap_scan_block(scan, cluster_block, cluster_block_size),
                                 blocks, cluster_block_index + 1, cluster_block_size,
                                 fails, fails_at)
                 IN [rest EXCEPT !.events =
                        <<got, Event("scan_cluster_block", cluster_block_index, TRUE)>> \o @]

(* on_error: the cache, then the vector, are released when they exist. *)
read_bitmap_on_error(fs, error, events, out, transients) ==
    [QueryOutcome(fs, -1, error, events, out) EXCEPT
        !.transients = on_error_free(on_error_free(transients, "cluster_block_cache"),
                                     "cluster_block_vector")]

libfsntfs_file_system_read_bitmap_storing(img, fs, ioh, fails, fails_at) ==
    IF fs = NULL \/ ioh = NULL
    THEN QueryOutcome(fs, -1, "ARGUMENT_INVALID_VALUE", << >>, << >>)
    ELSE
      LET got  == libfsntfs_mft_get_mft_entry_by_index(
                      img, fs.mft, LIBFSNTFS_MFT_ENTRY_INDEX_BITMAP, fails = "get_mft_entry")
          scan == read_bitmap_blocks(ScanState(0, 0, << >>), img.bitmap.blocks, 0,
                                     ioh.cluster_block_size, fails, fails_at)
          fs1  == [ mft                       |-> got.mft,
                    security_descriptor_index |-> fs.security_descriptor_index,
                    read_write_lock           |-> fs.read_write_lock,
                    offset_list               |-> scan.scan.ranges ]
      IN
      IF got.result # 1
      THEN QueryOutcome(fs, -1, "GET_FAILED", got.events, << >>)
      ELSE IF fails # "none" \/ ~got.entry.data_attribute \/ scan.error # NoError
      THEN QueryOutcome(fs, -1, "GET_FAILED", got.events, << >>)
      ELSE QueryOutcome(fs1, 1, NoError, got.events \o scan.events, scan.scan.ranges)

libfsntfs_file_system_read_bitmap(img, fs, ioh, fails, fails_at) ==
    IF fs = NULL \/ ioh = NULL
    THEN QueryOutcome(fs, -1, "ARGUMENT_INVALID_VALUE", << >>, << >>)
    ELSE
      LET got    == libfsntfs_mft_get_mft_entry_by_index(
                        img, fs.mft, LIBFSNTFS_MFT_ENTRY_INDEX_BITMAP, fails = "get_mft_entry")
          fs1    == [fs EXCEPT !.mft = got.mft]
          scan   == read_bitmap_blocks(ScanState(0, 0, << >>), img.bitmap.blocks, 0,
                                       ioh.cluster_block_size, fails, fails_at)
          events == got.events \o scan.events
          vector == <<Transient("cluster_block_vector", "initialize", TRUE)>>
          both   == Append(vector, Transient("cluster_block_cache", "initialize", TRUE))
      IN
      IF got.result # 1
      THEN read_bitmap_on_error(fs, "GET_FAILED", got.events, << >>, << >>)
      ELSE IF fails = "mft_entry_missing" \/ ~got.entry.data_attribute
      THEN read_bitmap_on_error(fs1, "VALUE_MISSING", got.events, << >>, << >>)
      ELSE IF fails = "vector_initialize"
      THEN read_bitmap_on_error(
               fs1, "INITIALIZE_FAILED", got.events, << >>,
               <<Transient("cluster_block_vector", "initialize", FALSE)>>)
      ELSE IF fails = "cache_initialize"
      THEN read_bitmap_on_error(
               fs1, "INITIALIZE_FAILED", got.events, << >>,
               Append(vector, Transient("cluster_block_cache", "initialize", FALSE)))
      ELSE IF fails = "get_number_of_elements"
      THEN read_bitmap_on_error(fs1, "GET_FAILED", got.events, << >>, both)
      ELSE IF scan.error # NoError
      THEN read_bitmap_on_error(fs1, scan.error, events, scan.scan.ranges, both)
      ELSE IF fails = "vector_free"
      THEN read_bitmap_on_error(
               fs1, "FINALIZE_FAILED", events, scan.scan.ranges,
               Append(both, Transient("cluster_block_vector", "free", FALSE)))
      ELSE IF fails = "cache_free"
      THEN read_bitmap_on_error(
               fs1, "FINALIZE_FAILED", events, scan.scan.ranges,
               both \o <<Transient("cluster_block_vector", "free", TRUE),
                         Transient("cluster_block_cache", "free", FALSE)>>)
      ELSE [QueryOutcome(fs1, 1, NoError, events, scan.scan.ranges) EXCEPT
               !.transients =
                   both \o <<Transient("cluster_block_vector", "free", TRUE),
                             Transient("cluster_block_cache", "free", TRUE)>>]

-----------------------------------------------------------------------------
(* The state machine: a facade as libfsntfs_file_system_initialize leaves  *)
(* it, and one action per facade function.                                 *)

NoArguments == [none |-> TRUE]

Call(op, args, outcome, out) ==
    [op |-> op, args |-> args, result |-> outcome.result, error |-> outcome.error,
     events |-> outcome.events, out |-> out, transients |-> outcome.transients]

(* Whether the event list holds an event of this kind. *)
HasEvent(events, what, index, ok) ==
    \E k \in 1 .. Len(events) : events[k] = Event(what, index, ok)

(* The io_handle read_mft is called with: the session's, or none (tried  *)
(* with one size and one flags value for every offset).                   *)
ReadMftIoHandles(mft_size, flags) ==
    IF mft_size = INT_MAX /\ flags = 0 THEN {NULL, io_handle} ELSE {io_handle}

Idle == [at |-> "idle", index |-> 0]

InitOn(images, io_handles) ==
    /\ image \in images
    /\ io_handle \in io_handles
    /\ file_system = [ mft                       |-> NULL,
                       security_descriptor_index |-> NULL,
                       read_write_lock           |-> [readers |-> {}, writer |-> 0] ]
    /\ ret = [op |-> "initialize", args |-> NoArguments, result |-> 1,
              error |-> NoError, events |-> << >>, out |-> NULL, transients |-> << >>]
    /\ history = [entry0_read |-> FALSE, entry0_parsed |-> FALSE,
                  data_runs |-> FALSE, completed |-> FALSE]
    /\ thread = [t \in Threads |-> Idle]

AllIdle == \A t \in Threads : thread[t] = Idle

ReadMftWith(mft_offsets, mft_sizes) ==
    \E mft_offset \in mft_offsets, mft_size \in mft_sizes, flags \in MftFlags :
      \E ioh \in ReadMftIoHandles(mft_size, flags) :
      \E fails \in ReadMftFailuresAfter(
                       read_mft_check_arguments(file_system, ioh, mft_offset, mft_size)) :
        LET o == libfsntfs_file_system_read_mft(
                     image, file_system, ioh, mft_offset, mft_size, flags, fails)
        IN /\ AllIdle
           /\ file_system' = o.file_system
           /\ ret' = Call("read_mft",
                          [mft_offset |-> mft_offset, mft_size |-> mft_size, flags |-> flags],
                          o, NULL)
           /\ history' =
                  [ entry0_read   |-> history.entry0_read
                                      \/ HasEvent(o.events, "read_mft_entry", 0, TRUE)
                                      \/ HasEvent(o.events, "read_mft_entry", 0, FALSE),
                    entry0_parsed |-> history.entry0_parsed
                                      \/ HasEvent(o.events, "read_mft_entry", 0, TRUE),
                    data_runs     |-> history.data_runs
                                      \/ HasEvent(o.events, "set_data_runs", 0, TRUE),
                    completed     |-> history.completed \/ o.result = 1 ]
           /\ UNCHANGED <<image, io_handle, thread>>

ReadMft == ReadMftWith(MftOffsets, MftSizes)

(* read_mft as a volume passes it the MFT offset of its boot record. *)
ReadVolumeMft == ReadMftWith({ImageMftOffset}, {INT_MAX})

(* read_bitmap takes the facade, the io_handle and the file handle and     *)
(* nothing else: whether its caller has asked for the scan to be cancelled *)
(* is known to the caller alone and is recorded with the call (tried on    *)
(* the calls in which nothing fails).                                      *)
ReadBitmapWith(cancel_requests, failing_blocks) ==
    \E ioh \in {NULL, io_handle} :
      \E fails \in (IF ioh = NULL THEN {"none"} ELSE ReadBitmapFailures) :
        \E fails_at \in (IF fails \in {"get_cluster_block", "cluster_block_missing",
                                       "cluster_block_data_missing"}
                         THEN failing_blocks ELSE {0}),
           cancel_requested \in (IF fails = "none" /\ ioh # NULL
                                 THEN cancel_requests ELSE {FALSE}) :
        LET o == libfsntfs_file_system_read_bitmap(image, file_system, ioh, fails, fails_at)
        IN /\ AllIdle
           /\ file_system' = o.file_system
           /\ ret' = Call("read_bitmap", [cancel_requested |-> cancel_requested], o, o.out)
           /\ UNCHANGED <<image, io_handle, history, thread>>

ReadBitmap == ReadBitmapWith({FALSE}, {0})

ReadSecurityDescriptors ==
    \E fails \in ReadSecurityDescriptorsFailures :
        LET o == libfsntfs_file_system_read_security_descriptors(
                     image, file_system, io_handle, fails)
        IN /\ AllIdle
           /\ file_system' = o.file_system
           /\ ret' = Call("read_security_descriptors", [fails |-> fails], o, NULL)
           /\ UNCHANGED <<image, io_handle, history, thread>>

GetNumberOfMftEntries ==
    LET o == libfsntfs_file_system_get_number_of_mft_entries(file_system, 0)
    IN /\ AllIdle
       /\ file_system' = o.file_system
       /\ ret' = Call("get_number_of_mft_entries", NoArguments, o, o.out)
       /\ UNCHANGED <<image, io_handle, history, thread>>

GetMftEntryByIndex ==
    \E index \in EntryIndexes, fails \in BOOLEAN :
        LET o == libfsntfs_file_system_get_mft_entry_by_index(
                     image, file_system, index, fails)
        IN /\ AllIdle
           /\ file_system' = o.file_system
           /\ ret' = Call("get_mft_entry_by_index", [index |-> index], o, o.out)
           /\ UNCHANGED <<image, io_handle, history, thread>>

GetMftEntryByIndexNoCache ==
    \E index \in EntryIndexes, fails \in BOOLEAN :
        LET o == libfsntfs_file_system_get_mft_entry_by_index_no_cache(
                     image, file_system, index, fails)
        IN /\ AllIdle
           /\ file_system' = o.file_system
           /\ ret' = Call("get_mft_entry_by_index_no_cache", [index |-> index], o, o.out)
           /\ UNCHANGED <<image, io_handle, history, thread>>

GetSecurityDescriptorValuesByIdentifier ==
    \E identifier \in Identifiers, fails \in BOOLEAN :
        LET o == libfsntfs_file_system_get_security_descriptor_values_by_identifier(
                     file_system, identifier, NULL, fails)
        IN /\ AllIdle
           /\ file_system' = o.file_system
           /\ ret' = Call("get_security_descriptor_values_by_identifier",
                          [identifier |-> identifier], o, o.out)
           /\ UNCHANGED <<image, io_handle, history, thread>>

Next ==
    \/ ReadMft
    \/ ReadBitmap
    \/ ReadSecurityDescriptors
    \/ GetNumberOfMftEntries
    \/ GetMftEntryByIndex
    \/ GetMftEntryByIndexNoCache
    \/ GetSecurityDescriptorValuesByIdentifier

Init == InitOn(BootstrapImages, IoHandles)

Spec == Init /\ [][Next]_vars

(* The same facade over images that differ in entry 9 ($Secure), opened   *)
(* at the MFT offset of the image.                                         *)
InitSecurity == InitOn(SecurityImages, {h \in IoHandles : h.mft_entry_size = 1})

NextSecurity ==
    \/ ReadVolumeMft
    \/ ReadBitmap
    \/ ReadSecurityDescriptors
    \/ GetNumberOfMftEntries
    \/ GetMftEntryByIndex
    \/ GetMftEntryByIndexNoCache
    \/ GetSecurityDescriptorValuesByIdentifier

SpecSecurity == InitSecurity /\ [][NextSecurity]_vars

(* The bitmap reader on volumes that differ in $Bitmap and in the cluster  *)
(* block size, with a failure striking at the first or the second block.   *)
InitBitmap == InitOn(BitmapImages, BitmapIoHandles)

ReadAnyBitmap == ReadBitmapWith(BOOLEAN, {0, 1})

NextBitmap ==
    \/ ReadVolumeMft
    \/ ReadAnyBitmap

SpecBitmap == InitBitmap /\ [][NextBitmap]_vars

(* The bootstrap with an I/O handle whose MFT entry size may be 0. *)
InitEntrySize == InitOn(BootstrapImages, EntrySizeIoHandles)

NextEntrySize ==
    \/ ReadMft
    \/ GetNumberOfMftEntries
    \/ GetMftEntryByIndex

SpecEntrySize == InitEntrySize /\ [][NextEntrySize]_vars

-----------------------------------------------------------------------------
(* Several threads inside libfsntfs_file_system_get_mft_entry_by_index at  *)
(* once.  The function takes no lease on file_system.read_write_lock; its  *)
(* steps are the lookup in the MFT's cache and, on a miss, the read of the *)
(* entry followed by the insert into the cache.                            *)

GetEnter(t) ==
    \E index \in EntryIndexes :
        /\ thread[t] = Idle
        /\ file_system # NULL
        /\ thread' = [thread EXCEPT ![t] = [at |-> "lookup", index |-> index]]
        /\ UNCHANGED <<image, io_handle, file_system, ret, history>>

GetLookup(t) ==
    \E fails \in BOOLEAN :
        LET index == thread[t].index
            mft   == file_system.mft
            entry == mft_read_element(image, mft, index, fails)
            done(result, error, events, out) ==
                /\ thread' = [thread EXCEPT ![t] = Idle]
                /\ ret' = [op |-> "get_mft_entry_by_index", args |-> [index |-> index],
                           result |-> result, error |-> error,
                           events |-> events, out |-> out, transients |-> << >>]
        IN /\ thread[t].at = "lookup"
           /\ IF mft = NULL \/ mft_entry_out_of_range(mft, index)
              THEN done(-1, "GET_FAILED", << >>, NULL)
              ELSE IF mft_cache_holds(mft, index)
              THEN done(1, NoError, <<Event("cache_hit", index, TRUE)>>,
                        ImageEntry(image, index))
              ELSE IF entry = NULL
              THEN done(-1, "GET_FAILED", <<Event("read_mft_entry", index, FALSE)>>, NULL)
              ELSE /\ thread' = [thread EXCEPT ![t] = [at |-> "insert", index |-> index]]
                   /\ UNCHANGED ret
           /\ UNCHANGED <<image, io_handle, file_system, history>>

GetInsert(t) ==
    LET index == thread[t].index
    IN /\ thread[t].at = "insert"
       /\ file_system' = [file_system EXCEPT !.mft = mft_cache_insert(file_system.mft, index)]
       /\ thread' = [thread EXCEPT ![t] = Idle]
       /\ ret' = [op |-> "get_mft_entry_by_index", args |-> [index |-> index],
                  result |-> 1, error |-> NoError,
                  events |-> <<Event("read_mft_entry", index, TRUE),
                               Event("cache_insert", index, TRUE)>>,
                  out |-> ImageEntry(image, index), transients |-> << >>]
       /\ UNCHANGED <<image, io_handle, history>>

GetMftEntryByIndexEnter == \E t \in Threads : GetEnter(t)

GetMftEntryByIndexLookup == \E t \in Threads : GetLookup(t)

GetMftEntryByIndexInsert == \E t \in Threads : GetInsert(t)

NextThreads ==
    \/ ReadMft
    \/ GetMftEntryByIndexEnter
    \/ GetMftEntryByIndexLookup
    \/ GetMftEntryByIndexInsert

InitThreads == InitOn({IntactImage}, IoHandles)

SpecThreads == InitThreads /\ [][NextThreads]_vars

-----------------------------------------------------------------------------
(* libfsntfs_file_system_initialize and libfsntfs_file_system_free.  The   *)
(* caller's pointer is the variable file_system (NULL: no facade); the     *)
(* argument is the address of that pointer, not NULL when pointer is TRUE. *)

InitializeFailures ==
    {"none", "memory_allocate", "memory_set", "read_write_lock_initialize"}

(* An initialize that returns from a failed lock initialisation without    *)
(* releasing the facade it allocated.                                      *)
libfsntfs_file_system_initialize_exposed(pointer, fs, fails) ==
    IF ~pointer
    THEN Outcome(fs, -1, "ARGUMENT_INVALID_VALUE", << >>)
    ELSE IF fs # NULL
    THEN Outcome(fs, -1, "VALUE_ALREADY_SET", << >>)
    ELSE IF fails = "memory_allocate"
    THEN Outcome(NULL, -1, "INSUFFICIENT", << >>)
    ELSE IF fails = "memory_set"
    THEN Outcome(NULL, -1, "SET_FAILED", << >>)
    ELSE Outcome([ mft                       |-> NULL,
                   security_descriptor_index |-> NULL,
                   read_write_lock           |-> [readers |-> {}, writer |-> 0] ],
                 IF fails = "read_write_lock_initialize" THEN -1 ELSE 1,
                 IF fails = "read_write_lock_initialize"
                 THEN "INITIALIZE_FAILED" ELSE NoError,
                 << >>)

libfsntfs_file_system_initialize(pointer, fs, fails) ==
    IF ~pointer
    THEN Outcome(fs, -1, "ARGUMENT_INVALID_VALUE", << >>)
    ELSE IF fs # NULL
    THEN Outcome(fs, -1, "VALUE_ALREADY_SET", << >>)
    ELSE IF fails = "memory_allocate"
    THEN Outcome(NULL, -1, "INSUFFICIENT", << >>)
    ELSE IF fails = "memory_set"
    THEN Outcome(NULL, -1, "SET_FAILED", << >>)
    ELSE IF fails = "read_write_lock_initialize"
    THEN Outcome(NULL, -1, "INITIALIZE_FAILED", << >>)
    ELSE Outcome([ mft                       |-> NULL,
                   security_descriptor_index |-> NULL,
                   read_write_lock           |-> [readers |-> {}, writer |-> 0] ],
                 1, NoError, << >>)

(* The releases free makes that can fail; any set of them may. *)
FreeFailures ==
    SUBSET {"read_write_lock_free", "security_descriptor_index_free", "mft_free"}

(* The sub-releases free makes on this facade, in order, with their outcome. *)
free_releases(fs, fails) ==
    (IF fs.security_descriptor_index # NULL
     THEN <<Event("security_descriptor_index_free", -1,
                  "security_descriptor_index_free" \notin fails)>>
     ELSE << >>)
    \o (IF fs.mft # NULL
        THEN <<Event("mft_free", -1, "mft_free" \notin fails)>>
        ELSE << >>)

(* A free that gives up at the first release that fails and leaves the     *)
(* facade with its caller.                                                 *)
libfsntfs_file_system_free_early_return(pointer, fs, fails) ==
    IF ~pointer
    THEN Outcome(fs, -1, "ARGUMENT_INVALID_VALUE", << >>)
    ELSE IF fs = NULL
    THEN Outcome(fs, 1, NoError, << >>)
    ELSE LET releases == free_releases(fs, fails)
             failed   == \/ "read_write_lock_free" \in fails
                         \/ \E k \in 1 .. Len(releases) : ~releases[k].ok
         IN IF failed
            THEN Outcome(fs, -1, "FINALIZE_FAILED", releases)
            ELSE Outcome(NULL, 1, NoError, releases)

libfsntfs_file_system_free(pointer, fs, fails) ==
    IF ~pointer
    THEN Outcome(fs, -1, "ARGUMENT_INVALID_VALUE", << >>)
    ELSE IF fs = NULL
    THEN Outcome(fs, 1, NoError, << >>)
    ELSE LET releases == free_releases(fs, fails)
             failed   == \/ "read_write_lock_free" \in fails
                         \/ \E k \in 1 .. Len(releases) : ~releases[k].ok
         IN Outcome(NULL,
                    IF failed THEN -1 ELSE 1,
                    IF failed THEN "FINALIZE_FAILED" ELSE NoError,
                    releases)

NoHistory ==
    [entry0_read |-> FALSE, entry0_parsed |-> FALSE,
     data_runs |-> FALSE, completed |-> FALSE]

Initialize ==
    \E pointer \in BOOLEAN, fails \in InitializeFailures :
        LET o == libfsntfs_file_system_initialize(pointer, file_system, fails)
        IN /\ AllIdle
           /\ file_system' = o.file_system
           /\ ret' = Call("initialize", [pointer |-> pointer], o, NULL)
           /\ history' = IF o.result = 1 THEN NoHistory ELSE history
           /\ UNCHANGED <<image, io_handle, thread>>

Free ==
    \E pointer \in BOOLEAN, fails \in FreeFailures :
        LET o == libfsntfs_file_system_free(pointer, file_system, fails)
        IN /\ AllIdle
           /\ file_system' = o.file_system
           /\ ret' = Call("free", [pointer |-> pointer], o, NULL)
           /\ UNCHANGED <<image, io_handle, history, thread>>

(* A caller's pointer from before initialize to after free. *)
InitLifecycle ==
    /\ image = IntactImage
    /\ io_handle \in {h \in IoHandles : h.mft_entry_size = 1}
    /\ file_system = NULL
    /\ ret = [op |-> "none", args |-> NoArguments, result |-> 1,
              error |-> NoError, events |-> << >>, out |-> NULL, transients |-> << >>]
    /\ history = NoHistory
    /\ thread = [t \in Threads |-> Idle]

NextLifecycle ==
    \/ Initialize
    \/ Free
    \/ ReadVolumeMft
    \/ ReadSecurityDescriptors
    \/ GetMftEntryByIndex
    \/ GetSecurityDescriptorValuesByIdentifier

SpecLifecycle == InitLifecycle /\ [][NextLifecycle]_vars

-----------------------------------------------------------------------------
(* Properties of the facade.                                               *)

(* A step of ReadMft that is not a stuttering step. *)
ReadMftStep ==
    /\ ret'.op = "read_mft"
    /\ <<file_system, ret, history>>' # <<file_system, ret, history>>

(* The call handed an MFT entry to its caller or used one itself. *)
Served(events) ==
    \E k \in 1 .. Len(events) :
        events[k].ok /\ events[k].ev \in {"read_mft_entry", "cache_hit"}

GetSecurityDescriptor == "get_security_descriptor_values_by_identifier"

(* C1: a read_mft that cannot read and parse MFT entry 0 returns -1 with   *)
(* a read error, having done nothing after the failed read, and the number *)
(* of MFT entries of the facade is zero afterwards and stays zero.         *)
C1_Entry0Unreadable ==
    /\ ret.op = "read_mft"
    /\ HasEvent(ret.events, "read_mft_entry", 0, FALSE)

C2_Step ==
    (ReadMftStep /\ file_system.mft # NULL) =>
        /\ ret'.result = -1
        /\ ret'.error = "VALUE_ALREADY_SET"
        /\ ret'.events = << >>
        /\ file_system' = file_system

C2_SetMftIsKept == [][C2_Step]_vars

C2_Witness ==
    /\ ret.op = "read_mft"
    /\ ret.error = "VALUE_ALREADY_SET"
    /\ ret.args.mft_offset < 0
    /\ file_system.mft # NULL
    /\ file_system.mft.number_of_mft_entries > 0

(* C3: on a facade without MFT, a read_mft with mft_offset < 0 or with     *)
(* mft_size > INT64_MAX returns -1 without creating an MFT object or       *)
(* reading anything; the facade is unchanged, and a read_mft with the      *)
(* image's own offset and size passes the argument checks afterwards and   *)
(* succeeds on an intact image.                                            *)
C3_Step ==
    (/\ ReadMftStep
     /\ file_system.mft = NULL
     /\ (ret'.args.mft_offset < 0 \/ ret'.args.mft_size > INT64_MAX)) =>
        /\ ret'.result = -1
        /\ ret'.events = << >>
        /\ file_system' = file_system
        /\ read_mft_check_arguments(
               file_system', io_handle', ImageMftOffset, ImageMftDataSize) = NoError
        /\ image'.entry0 = "ok" =>
               libfsntfs_file_system_read_mft(
                   image', file_system', io_handle', ImageMftOffset, ImageMftDataSize,
                   0, "none").result = 1

C3_BadArgumentsCreateNoMft == [][C3_Step]_vars

C3_Witness ==
    /\ ret.op = "read_mft"
    /\ ret.args.mft_size > INT64_MAX
    /\ ret.error = "VALUE_EXCEEDS_MAXIMUM"
    /\ file_system.mft = NULL

(* C4: a read_mft with mft_size = 0 fails, with or without MFT_ONLY.       *)
C4_ZeroSizeIsRefused ==
    (ret.op = "read_mft" /\ ret.args.mft_size = 0) => ret.result = -1

(* C5: the data runs of entry 0 are installed only after entry 0 was read  *)
(* and parsed, read_mft reads entry 0 at the offset it is given before it  *)
(* sets the data runs, no entry other than 0 is read before read_mft has   *)
(* read entry 0, and no query (get_mft_entry_by_index, its uncached        *)
(* variant, read_bitmap, read_security_descriptors) is served an MFT entry *)
(* unless a read_mft has returned 1.                                       *)
C5_BootstrapFirst ==
    /\ history.data_runs => history.entry0_parsed
    /\ (ret.op = "read_mft" /\ ret.events # << >>) =>
           ret.events[1].ev = "read_mft_entry" /\ ret.events[1].index = 0
    /\ (\E k \in 1 .. Len(ret.events) : ret.events[k].index # 0) =>
           history.entry0_parsed
    /\ (ret.op # "read_mft" /\ Served(ret.events)) => history.completed

(* C6: with MFT_ONLY a read_mft that returns 1 has not set the data runs   *)
(* of entry 0 and has made the entry count mft_size / mft_entry_size; it   *)
(* returns -1 when that quotient is above INT_MAX or entry 0 has no        *)
(* unnamed $DATA attribute.  Without MFT_ONLY a read_mft that returns 1    *)
(* has set the data runs and the count is that of entry 0's $DATA.         *)
C6_MftOnlyCountsFromSize ==
    ret.op = "read_mft" =>
        LET quotient == ret.args.mft_size \div io_handle.mft_entry_size
        IN IF ret.args.flags = LIBFSNTFS_FILE_ENTRY_FLAGS_MFT_ONLY
           THEN /\ (quotient > INT_MAX \/ image.entry0 # "ok") => ret.result = -1
                /\ ret.result = 1 =>
                       /\ ~HasEvent(ret.events, "set_data_runs", 0, TRUE)
                       /\ ~HasEvent(ret.events, "set_data_runs", 0, FALSE)
                       /\ ~file_system.mft.data_runs
                       /\ file_system.mft.number_of_mft_entries = quotient
           ELSE ret.result = 1 =>
                       /\ HasEvent(ret.events, "set_data_runs", 0, TRUE)
                       /\ file_system.mft.data_runs
                       /\ file_system.mft.number_of_mft_entries
                              = image.mft_data_size \div io_handle.mft_entry_size

C6_Witness ==
    /\ ret.op = "read_mft"
    /\ ret.result = 1
    /\ ret.args.flags = LIBFSNTFS_FILE_ENTRY_FLAGS_MFT_ONLY
    /\ io_handle.mft_entry_size = 1
    /\ file_system.mft.number_of_mft_entries = INT_MAX

(* C7: a thread inside get_mft_entry_by_index holds a reader lease of the  *)
(* facade's read/write lock while it looks the entry up and the writer     *)
(* lease while it inserts into the cache.                                  *)
C7_LeasesAreHeld ==
    \A t \in Threads :
        /\ thread[t].at = "lookup" => t \in file_system.read_write_lock.readers
        /\ thread[t].at = "insert" => file_system.read_write_lock.writer = t

(* C8: without security descriptor index the lookup returns 0 with no      *)
(* error and the output untouched, for every identifier; with an index it  *)
(* returns what the index lookup returns, and it sets an error exactly     *)
(* when the index lookup returns -1.                                       *)
C8_LookupFollowsIndex ==
    ret.op = GetSecurityDescriptor =>
        IF file_system.security_descriptor_index = NULL
        THEN ret.result = 0 /\ ret.error = NoError /\ ret.out = NULL
        ELSE \E fails \in BOOLEAN :
                LET got == libfsntfs_security_descriptor_index_get_entry_by_identifier(
                               file_system.security_descriptor_index,
                               ret.args.identifier, NULL, fails)
                IN /\ ret.result = got.result
                   /\ ret.out = got.values
                   /\ (ret.error # NoError) <=> (got.result = -1)

C8_Witness ==
    /\ ret.op = GetSecurityDescriptor
    /\ file_system.security_descriptor_index # NULL
    /\ ret.args.identifier \in file_system.security_descriptor_index.bad
    /\ ret.result = -1

(* C9: on an image whose entry 9 is not named "$Secure", a                 *)
(* read_security_descriptors that was handed entry 9 and whose calls up to *)
(* the release of the file name values all succeed returns 1 (the $SDS     *)
(* attribute and the $SII index are not touched, so their state does not   *)
(* matter); the facade never has a security descriptor index, and every    *)
(* lookup returns 0 without error, for every identifier.                   *)
C9_NotSecure ==
    image.secure.name # "$Secure"

C9_LegacyVolumeHasNoIndex ==
    C9_NotSecure =>
        /\ file_system.security_descriptor_index = NULL
        /\ (/\ ret.op = "read_security_descriptors"
            /\ Served(ret.events)
            /\ ret.args.fails \in {"none", "get_mft_entry", "get_sds",
                                   "index_initialize", "read_sii_index"}) =>
               ret.result = 1 /\ ret.error = NoError
        /\ ret.op = GetSecurityDescriptor =>
               ret.result = 0 /\ ret.error = NoError /\ ret.out = NULL

C9_Witness ==
    /\ C9_NotSecure
    /\ ret.op = "read_security_descriptors"
    /\ ret.result = 1
    /\ image.secure.sds
    /\ image.secure.sii # {}

(* C10: a lookup of identifier 0 never returns a descriptor, whether the   *)
(* facade has an index or not, and a lookup of an identifier the index     *)
(* does not hold returns 0 without error.                                  *)
C10_IdentifierZeroIsNeverFound ==
    ret.op = GetSecurityDescriptor =>
        /\ ret.args.identifier = 0 => ret.result # 1
        /\ (/\ file_system.security_descriptor_index # NULL
            /\ ret.args.identifier \notin file_system.security_descriptor_index.sii) =>
               ret.result = 0 /\ ret.error = NoError

(* A step of Free, and one of Initialize, that is not a stuttering step. *)
FreeStep ==
    /\ ret'.op = "free"
    /\ ret.op = "free" => <<file_system, ret>>' # <<file_system, ret>>

InitializeStep ==
    /\ ret'.op = "initialize"
    /\ ret.op = "initialize" => <<file_system, ret, history>>' # <<file_system, ret, history>>

(* C11: a free of the facade made while the caller still holds the MFT     *)
(* entry its last get_mft_entry_by_index handed out returns -1 and leaves  *)
(* the facade, its MFT and its security descriptor index as they are.      *)
C11_Step ==
    (/\ FreeStep
     /\ ret'.args.pointer
     /\ ret.op = "get_mft_entry_by_index"
     /\ ret.result = 1) =>
        /\ ret'.result = -1
        /\ file_system' = file_system

C11_BusyFacadeIsKept == [][C11_Step]_vars

(* C17: free of a facade makes the release of the security descriptor      *)
(* index when there is one and of the MFT when there is one, sets the      *)
(* caller's pointer to NULL whatever the releases return, and returns -1   *)
(* when one of them (or the release of the lock) failed and 1 otherwise;   *)
(* free of a pointer that is NULL returns 1 and does nothing; free without *)
(* a pointer returns -1 and touches nothing.                               *)
C17_Step ==
    FreeStep =>
        IF ~ret'.args.pointer
        THEN /\ ret'.result = -1
             /\ ret'.error = "ARGUMENT_INVALID_VALUE"
             /\ file_system' = file_system
        ELSE IF file_system = NULL
        THEN /\ ret'.result = 1
             /\ ret'.error = NoError
             /\ ret'.events = << >>
             /\ file_system' = NULL
        ELSE /\ file_system' = NULL
             /\ (file_system.security_descriptor_index # NULL) <=>
                    (\E k \in 1 .. Len(ret'.events) :
                        ret'.events[k].ev = "security_descriptor_index_free")
             /\ (file_system.mft # NULL) <=>
                    (\E k \in 1 .. Len(ret'.events) : ret'.events[k].ev = "mft_free")
             /\ ret'.result \in {1, -1}
             /\ (\E k \in 1 .. Len(ret'.events) : ~ret'.events[k].ok) => ret'.result = -1
             /\ (ret'.result = -1) <=> (ret'.error = "FINALIZE_FAILED")

C17_FreeAlwaysResetsThePointer == [][C17_Step]_vars

C17_Witness ==
    /\ ret.op = "free"
    /\ ret.result = -1
    /\ file_system = NULL
    /\ HasEvent(ret.events, "mft_free", -1, FALSE)
    /\ HasEvent(ret.events, "security_descriptor_index_free", -1, TRUE)

(* C18: initialize returns 1 only for a pointer that is given and is NULL, *)
(* and the facade it then yields has no MFT and no security descriptor     *)
(* index; whenever it returns -1 the caller's pointer is what it was: NULL *)
(* if it was NULL (no facade is left behind), untouched if it was set.     *)
C18_Step ==
    InitializeStep =>
        /\ ret'.result \in {1, -1}
        /\ ret'.result = 1 =>
               /\ ret'.args.pointer
               /\ file_system = NULL
               /\ file_system' # NULL
               /\ file_system'.mft = NULL
               /\ file_system'.security_descriptor_index = NULL
        /\ ret'.result = -1 =>
               /\ ret'.error # NoError
               /\ file_system' = file_system

C18_InitializeExposesNothingOnFailure == [][C18_Step]_vars

C18_Witness ==
    /\ ret.op = "initialize"
    /\ ret.args # NoArguments
    /\ ret.error = "INITIALIZE_FAILED"
    /\ file_system = NULL

(* A step of read_bitmap that is not a stuttering step. *)
ReadBitmapStep ==
    /\ ret'.op = "read_bitmap"
    /\ ret.op = "read_bitmap" => <<file_system, ret>>' # <<file_system, ret>>

(* C12: whatever read_bitmap returns, the facade has the same fields after *)
(* it as before (no range list is kept), the same MFT with the same entry  *)
(* count, stream and flags (only the MFT's entry cache may have moved),    *)
(* the same security descriptor index and the same lock; the ranges are    *)
(* handed to the debug output alone.                                       *)
C12_Step ==
    (ReadBitmapStep /\ file_system # NULL) =>
        /\ file_system' # NULL
        /\ DOMAIN file_system' = DOMAIN file_system
        /\ (file_system'.mft = NULL) <=> (file_system.mft = NULL)
        /\ file_system.mft # NULL =>
               /\ file_system'.mft.number_of_mft_entries =
                      file_system.mft.number_of_mft_entries
               /\ [file_system'.mft EXCEPT !.cache = file_system.mft.cache] =
                      file_system.mft
        /\ file_system'.security_descriptor_index = file_system.security_descriptor_index
        /\ file_system'.read_write_lock = file_system.read_write_lock

C12_ReadBitmapKeepsTheFacade == [][C12_Step]_vars

C12_Witness ==
    /\ ret.op = "read_bitmap"
    /\ ret.result = 1
    /\ ret.out # << >>
    /\ file_system.mft # NULL
    /\ file_system.security_descriptor_index # NULL

(* The words of $Bitmap in the order of its cluster blocks. *)
RECURSIVE BitmapWords(_)
BitmapWords(blocks) ==
    IF blocks = << >>
    THEN << >>
    ELSE Head(blocks).words \o BitmapWords(Tail(blocks))

(* Bit k of word w stands for cluster 32 * w + k. *)
ClusterAllocated(words, cluster) ==
    words[(cluster \div 32) + 1][(cluster % 32) + 1] = 1

(* Whether a produced range, taken as (offset, size) in units of           *)
(* unit clusters to the offset step, holds the cluster.                    *)
RangeHolds(range, cluster, unit) ==
    /\ range[1] <= cluster * unit
    /\ cluster * unit < range[1] + range[2]

(* C13: the ranges of a read_bitmap that returned 1, with the offsets      *)
(* taken back to clusters (an offset is a cluster number times the cluster *)
(* block size), are the maximal runs of set bits of the whole $Bitmap:     *)
(* every allocated cluster is in exactly one range, no free cluster is in  *)
(* any, and no range starts where another ends.                            *)
C13_RangesAreMaximalRuns ==
    (ret.op = "read_bitmap" /\ ret.result = 1) =>
        LET words  == BitmapWords(image.bitmap.blocks)
            unit   == io_handle.cluster_block_size
            ranges == ret.out
            held(cluster) == {k \in 1 .. Len(ranges) : RangeHolds(ranges[k], cluster, unit)}
        IN /\ \A cluster \in 0 .. (32 * Len(words) - 1) :
                  IF ClusterAllocated(words, cluster)
                  THEN Cardinality(held(cluster)) = 1
                  ELSE held(cluster) = {}
           /\ \A k1, k2 \in 1 .. Len(ranges) :
                  ranges[k1][1] + ranges[k1][2] # ranges[k2][1]

(* C14: when the set bits of $Bitmap are exactly those of clusters         *)
(* 0 .. n-1, a read_bitmap that returned 1 has produced the one range      *)
(* (0, n), in clusters.                                                    *)
C14_OneRunFromClusterZero ==
    LET words == BitmapWords(image.bitmap.blocks)
        set   == {cluster \in 0 .. (32 * Len(words) - 1) : ClusterAllocated(words, cluster)}
        n     == Cardinality(set)
    IN (/\ ret.op = "read_bitmap"
        /\ ret.result = 1
        /\ n > 0
        /\ set = 0 .. (n - 1)) =>
            ret.out = << <<0, n>> >>

(* The events of the cluster blocks in an event list. *)
BlockEvents(events) ==
    {k \in 1 .. Len(events) :
        events[k].ev \in {"get_cluster_block", "scan_cluster_block"}}

(* MFT entry 6 is not to be had: there is no MFT, the MFT ends before it,  *)
(* or it has no $DATA.                                                     *)
BitmapEntryMissing ==
    \/ file_system.mft = NULL
    \/ file_system.mft.number_of_mft_entries < LIBFSNTFS_MFT_ENTRY_INDEX_BITMAP
    \/ ~image.bitmap.data

(* The cluster blocks of $Bitmap (counted from 0) whose size is not a      *)
(* multiple of 4.                                                          *)
CorruptBlocks ==
    {b \in 0 .. (Len(image.bitmap.blocks) - 1) : image.bitmap.blocks[b + 1].data_size % 4 # 0}

(* C15: read_bitmap returns -1 when MFT entry 6 is not to be had, having   *)
(* asked for no cluster block, and returns -1 when a cluster block of      *)
(* $Bitmap has a size that is not a multiple of 4, in which case no word   *)
(* of the first such block has been scanned and no block after it has      *)
(* been asked for.                                                         *)
C15_MissingOrCorruptBitmapIsAnError ==
    ret.op = "read_bitmap" =>
        /\ BitmapEntryMissing =>
               /\ ret.result = -1
               /\ ret.error \in {"ARGUMENT_INVALID_VALUE", "GET_FAILED", "VALUE_MISSING"}
               /\ BlockEvents(ret.events) = {}
        /\ CorruptBlocks # {} =>
               /\ ret.result = -1
               /\ \A k \in BlockEvents(ret.events), b \in CorruptBlocks :
                      /\ ret.events[k].index <= b
                      /\ ret.events[k].ev = "scan_cluster_block" => ret.events[k].index < b
        /\ ret.error = "VALUE_OUT_OF_BOUNDS" => CorruptBlocks # {}

C15_Witness ==
    /\ ret.op = "read_bitmap"
    /\ ret.error = "VALUE_OUT_OF_BOUNDS"
    /\ HasEvent(ret.events, "scan_cluster_block", 0, TRUE)
    /\ HasEvent(ret.events, "get_cluster_block", 1, TRUE)
    /\ Len(image.bitmap.blocks) > 2

(* C16: a read_bitmap whose caller had asked for cancellation and that got *)
(* as far as the first cluster block of a $Bitmap of several returns -1    *)
(* with the error Cancelled and has asked for no block after the first.    *)
C16_CancelledScanStops ==
    (/\ ret.op = "read_bitmap"
     /\ ret.args.cancel_requested
     /\ Len(image.bitmap.blocks) > 1
     /\ HasEvent(ret.events, "get_cluster_block", 0, TRUE)) =>
        /\ ret.result = -1
        /\ ret.error = "CANCELLED"
        /\ \A k \in BlockEvents(ret.events) : ret.events[k].index = 0

(* The objects the three readers create for their own use. *)
TransientObjects ==
    {"mft_entry", "cluster_block_vector", "cluster_block_cache", "file_name_values"}

(* C20: when read_mft, read_bitmap or read_security_descriptors has        *)
(* returned, with 1 or with -1, every object it created for its own use    *)
(* (the entry 0 object, the cluster block vector and cache, the file name  *)
(* values) has had its free called after its creation, nothing is freed    *)
(* that was not created, and the facade holds nothing but its MFT, its     *)
(* security descriptor index and its lock.                                 *)
C20_TransientsAreReleased ==
    ret.op \in {"read_mft", "read_bitmap", "read_security_descriptors"} =>
        /\ \A k \in 1 .. Len(ret.transients) :
               /\ ret.transients[k].object \in TransientObjects
               /\ (ret.transients[k].ev = "initialize" /\ ret.transients[k].ok) =>
                      \E j \in (k + 1) .. Len(ret.transients) :
                          /\ ret.transients[j].object = ret.transients[k].object
                          /\ ret.transients[j].ev = "free"
               /\ ret.transients[k].ev = "free" =>
                      \E j \in 1 .. (k - 1) :
                          ret.transients[j] =
                              Transient(ret.transients[k].object, "initialize", TRUE)
        /\ file_system # NULL =>
               DOMAIN file_system = {"mft", "security_descriptor_index", "read_write_lock"}

C20_Witness ==
    /\ ret.op = "read_mft"
    /\ ret.result = -1
    /\ ret.error = "SET_FAILED"
    /\ ret.transients = <<Transient("mft_entry", "initialize", TRUE),
                          Transient("mft_entry", "free", TRUE)>>

(* A step of read_security_descriptors that is not a stuttering step. *)
ReadSecurityDescriptorsStep ==
    /\ ret'.op = "read_security_descriptors"
    /\ ret.op = "read_security_descriptors" => <<file_system, ret>>' # <<file_system, ret>>

(* C21: a read_security_descriptors that returns -1 leaves the security    *)
(* descriptor index of the facade what it was: an index that was set makes *)
(* the call fail with value-already-set and stays as it is; when none was  *)
(* set none is set afterwards, whatever failed, so that a lookup by        *)
(* identifier then returns 0 and a further read_security_descriptors is    *)
(* not refused as already set.                                             *)
C21_Step ==
    /\ (ReadSecurityDescriptorsStep /\ file_system # NULL /\ ret'.result = -1) =>
           /\ file_system'.security_descriptor_index = file_system.security_descriptor_index
           /\ (file_system.security_descriptor_index # NULL) <=>
                  (ret'.error = "VALUE_ALREADY_SET")
    /\ (/\ ret.op = "read_security_descriptors"
        /\ ret.result = -1
        /\ ret.error # "VALUE_ALREADY_SET"
        /\ ret'.op = GetSecurityDescriptor) =>
           ret'.result = 0

C21_FailedReadLeavesTheIndex == [][C21_Step]_vars

C21_Witness ==
    /\ ret.op = "read_security_descriptors"
    /\ ret.args.fails = "read_sii_index"
    /\ ret.error = "READ_FAILED"
    /\ file_system.security_descriptor_index = NULL

(* C22: a read_mft that returns -1 after it has tried to read entry 0      *)
(* (which it does only once the MFT object exists) leaves the facade with  *)
(* an MFT; a facade that has an MFT keeps one through every facade         *)
(* function, and every read_mft on it returns -1 with value-already-set.   *)
C22_Step ==
    /\ (/\ ReadMftStep
        /\ file_system.mft = NULL
        /\ ret'.result = -1
        /\ ret'.events # << >>) =>
           /\ ret'.error \in {"READ_FAILED", "SET_FAILED", "VALUE_MISSING",
                               "VALUE_OUT_OF_BOUNDS", "FINALIZE_FAILED"}
           /\ file_system'.mft # NULL
    /\ file_system.mft # NULL => file_system'.mft # NULL
    /\ (ReadMftStep /\ file_system.mft # NULL) =>
           /\ ret'.result = -1
           /\ ret'.error = "VALUE_ALREADY_SET"

C22_FailedBootstrapKeepsTheMft == [][C22_Step]_vars

C22_Witness ==
    /\ ret.op = "read_mft"
    /\ ret.error = "VALUE_ALREADY_SET"
    /\ ret.args.mft_offset = ImageMftOffset
    /\ ret.args.mft_size = INT_MAX
    /\ history.entry0_read
    /\ ~history.completed

NeedsTheMft ==
    {"get_number_of_mft_entries", "get_mft_entry_by_index",
     "get_mft_entry_by_index_no_cache", "read_bitmap", "read_security_descriptors"}

C24_Step ==
    (file_system.mft = NULL /\ ret'.op \in NeedsTheMft) =>
        /\ ret'.result = -1
        /\ ret'.error # NoError
        /\ ret'.events = << >>
        /\ file_system'.mft = NULL
        /\ file_system'.security_descriptor_index = NULL

C24_NoMftNoService == [][C24_Step]_vars

C24_Witness ==
    /\ ret.op = "read_bitmap"
    /\ ret.result = -1
    /\ ret.error = "GET_FAILED"
    /\ ret.events = << >>
    /\ file_system.mft = NULL
    /\ file_system.security_descriptor_index = NULL

(* The offsets that the bits of cluster block b (counted from 0) stand     *)
(* for: every bit of every block before it has moved the offset on by unit.*)
RECURSIVE BlockFirstOffset(_, _, _)
BlockFirstOffset(blocks, b, unit) ==
    IF b = 0
    THEN 0
    ELSE BlockFirstOffset(blocks, b - 1, unit) + 32 * Len(blocks[b].words) * unit

BlockLastOffset(blocks, b, unit) ==
    BlockFirstOffset(blocks, b, unit) + 32 * Len(blocks[b + 1].words) * unit

(* C25: every range that read_bitmap has produced, whether the call        *)
(* succeeded or stopped at a later block, is non-empty, starts and ends on *)
(* a multiple of cluster_block_size and lies within the offsets of one     *)
(* cluster block of $Bitmap (the offset runs on from block to block, the   *)
(* open range does not); the ranges come in strictly increasing order and  *)
(* do not overlap.                                                         *)
C25_RangesStayWithinOneBlock ==
    ret.op = "read_bitmap" =>
        LET ranges == ret.out
            blocks == image.bitmap.blocks
            unit   == io_handle.cluster_block_size
        IN /\ \A k \in 1 .. Len(ranges) :
                  /\ ranges[k][2] > 0
                  /\ ranges[k][1] % unit = 0
                  /\ (ranges[k][1] + ranges[k][2]) % unit = 0
                  /\ \E b \in 0 .. Len(blocks) - 1 :
                         /\ BlockFirstOffset(blocks, b, unit) <= ranges[k][1]
                         /\ ranges[k][1] + ranges[k][2] <= BlockLastOffset(blocks, b, unit)
           /\ \A k \in 1 .. Len(ranges) - 1 :
                  ranges[k][1] + ranges[k][2] <= ranges[k + 1][1]

(* A run that crosses the boundary of two blocks on a volume of cluster    *)
(* block size 2: bits 30, 31 of block 0 and bits 0, 1, 4 of block 1.       *)
C25_Witness ==
    /\ ret.op = "read_bitmap"
    /\ ret.result = 1
    /\ io_handle.cluster_block_size = 2
    /\ ret.out = << <<60, 4>>, <<64, 4>>, <<72, 2>> >>

====
